---- MODULE Spec2Model ----
(***************************************************************************)
(* Model of update_pyproject.py: the Package record (from_string, __str__, *)
(* updated_string, has_newer_version) and the check_for_updates driver.    *)
(* Strings are sequences of one-character strings; Python's None is the    *)
(* one-element sequence <<"None">>, which is no character string.          *)
(***************************************************************************)
EXTENDS Integers, Sequences, FiniteSets, TLC

VARIABLES
    string,            \* from_string's argument (parser specification)
    package,           \* the record from_string returned
    rendered,          \* str(package)
    ppc,               \* position of the parser specification
    file,              \* text of the declaration file on disk
    index,             \* the package index: latest version (or failure) per name
    update_file,       \* the persist flag of the current run
    pyproject_content, \* the in-memory text buffer
    packages,          \* the Package records built from the dependency list
    updated,           \* the updated flag of check_for_updates
    pos,               \* position of the loop over packages
    pc,                \* position of check_for_updates
    output,            \* lines printed by the current run
    lookups,           \* names requested from the index by the current run
    writes,            \* file writes of the current run
    original,          \* file text when the current run started
    run,               \* number of the current run
    prev               \* how the previous run ended

pvars == <<string, package, rendered, ppc>>
dvars == <<file, index, update_file, pyproject_content, packages, updated, pos, pc,
           output, lookups, writes, original, run, prev>>
vars == <<pvars, dvars>>

----------------------------------------------------------------------------
(* Bounds *)
MaxLen == 5
MaxDeps == 2
MaxRuns == 2

Alphabet == {"a", "1", "=", ">", "<", "~", "[", "]", ","}

----------------------------------------------------------------------------
(* Python values and string builtins *)
None == <<"None">>

\* f"{x}" of a str | None
Format(x) == IF x = None THEN <<"N", "o", "n", "e">> ELSE x

\* truthiness of a str | None
Truthy(x) == x # None /\ x # <<>>

\* s.find(sub) + 1: the first position of sub in s, 0 when absent
Find(s, sub) ==
    LET hits == {i \in 1..(Len(s) - Len(sub) + 1) : SubSeq(s, i, i + Len(sub) - 1) = sub}
    IN  IF hits = {} THEN 0 ELSE CHOOSE i \in hits : \A j \in hits : i <= j

\* sub in s
Contains(s, sub) == Find(s, sub) # 0

\* s.split(sep), sep not empty
RECURSIVE Split(_, _)
Split(s, sep) ==
    LET i == Find(s, sep)
    IN  IF i = 0 THEN <<s>>
        ELSE <<SubSeq(s, 1, i - 1)>> \o Split(SubSeq(s, i + Len(sep), Len(s)), sep)

\* sep.join(parts)
RECURSIVE Join(_, _)
Join(parts, sep) ==
    IF parts = <<>> THEN <<>>
    ELSE IF Len(parts) = 1 THEN parts[1]
    ELSE parts[1] \o sep \o Join(Tail(parts), sep)

\* s.replace(old, new), old not empty
RECURSIVE Replace(_, _, _)
Replace(s, old, new) ==
    LET i == Find(s, old)
    IN  IF i = 0 THEN s
        ELSE SubSeq(s, 1, i - 1) \o new \o Replace(SubSeq(s, i + Len(old), Len(s)), old, new)

----------------------------------------------------------------------------
(* class Package *)
possible_delimiters == << <<"=", "=">>, <<">", "=">>, <<"<", "=">>, <<"~", "=">> >>

\* the for loop over possible_delimiters with its break, then the default
FindDelimiter(s) ==
    LET found == {k \in 1..Len(possible_delimiters) : Contains(s, possible_delimiters[k])}
    IN  IF found = {} THEN None
        ELSE possible_delimiters[CHOOSE k \in found : \A j \in found : k <= j]

Delimiter(s) == IF FindDelimiter(s) = None THEN <<"=", "=">> ELSE FindDelimiter(s)

\* string.split(delimiter) and the unpacking into package_name, version
SplitVersion(s) ==
    LET package_parts == Split(s, Delimiter(s))
    IN  IF Len(package_parts) > 2
        THEN [exc |-> "ValueError", package_name |-> None, version |-> None]
        ELSE IF Len(package_parts) > 1
        THEN [exc |-> "none", package_name |-> package_parts[1], version |-> package_parts[2]]
        ELSE [exc |-> "none", package_name |-> package_parts[1], version |-> None]

\* package_name.split("[") and the unpacking into package_name, extras
SplitExtras(package_name) ==
    LET package_name_parts == Split(package_name, <<"[">>)
    IN  IF Len(package_name_parts) > 2
        THEN [exc |-> "ValueError", name |-> None, extras |-> <<>>]
        ELSE IF Len(package_name_parts) > 1
        THEN [exc |-> "none", name |-> package_name_parts[1],
              extras |-> Split(SubSeq(package_name_parts[2], 1, Len(package_name_parts[2]) - 1),
                               <<",">>)]
        ELSE [exc |-> "none", name |-> package_name, extras |-> <<>>]

Raised(e) ==
    [exc |-> e, name |-> None, version |-> None, extras |-> <<>>,
     delimiter |-> None, latest_version |-> None]

from_string(s) ==
    LET sv == SplitVersion(s)
    IN  IF sv.exc # "none" THEN Raised(sv.exc)
        ELSE LET se == SplitExtras(sv.package_name)
             IN  IF se.exc # "none" THEN Raised(se.exc)
                 ELSE [exc |-> "none", name |-> se.name, version |-> sv.version,
                       extras |-> se.extras, delimiter |-> Delimiter(s),
                       latest_version |-> None]

extras_string(p) ==
    IF p.extras # <<>> THEN <<"[">> \o Join(p.extras, <<",">>) \o <<"]">> ELSE <<>>

\* Package.__str__
str(p) == p.name \o extras_string(p) \o p.delimiter \o Format(p.version)

\* Package.updated_string
updated_string(p) == p.name \o extras_string(p) \o <<"=", "=">> \o Format(p.latest_version)

----------------------------------------------------------------------------
(* The package index and Package.has_newer_version *)
HTTPError == <<"HTTPError">>

Names == {<<"a">>, <<"a", "a">>}
Versions == {<<"1">>, <<"2">>}

\* Package.get_latest_version: the version the index publishes for the name;
\* an unknown name or a failed request raises
get_latest_version(p) == IF p.name \in DOMAIN index THEN index[p.name] ELSE HTTPError

\* has_newer_version's early return for a record without a version
NeedsLookup(p) == Truthy(p.version)

\* Package.has_newer_version: the result, the record after the call, and
\* whether the index was asked
has_newer_version(p) ==
    IF ~NeedsLookup(p)
    THEN [exc |-> "none", result |-> TRUE, package |-> p, asked |-> FALSE]
    ELSE LET r == get_latest_version(p)
         IN  IF r = HTTPError
             THEN [exc |-> "HTTPError", result |-> FALSE, package |-> p, asked |-> TRUE]
             ELSE [exc |-> "none", result |-> r # p.version,
                   package |-> [p EXCEPT !.latest_version = r], asked |-> TRUE]

----------------------------------------------------------------------------
(* The declaration file.  "P" stands for the [project] table header, "D"   *)
(* for the dependencies key, and every list entry is a quoted string.      *)
Quote == <<"'">>

RECURSIVE Entries(_)
Entries(deps) ==
    IF deps = <<>> THEN <<>> ELSE Quote \o deps[1] \o Quote \o Entries(Tail(deps))

FileText(deps) == <<"P", "D">> \o Entries(deps)

\* tomllib.loads: which keys the document has and the dependency strings
loads(text) ==
    LET pieces == Split(text, Quote)
    IN  [project |-> Len(text) >= 1 /\ text[1] = "P",
         dependencies |-> Len(text) >= 2 /\ text[1] = "P" /\ text[2] = "D",
         list |-> [k \in 1..(Len(pieces) \div 2) |-> pieces[2 * k]]]

\* a structure check that forgets the dependencies key
IsValidProjectOnly(pyproject) == pyproject.project

\* the structure check of check_for_updates
IsValid(pyproject) == pyproject.project /\ pyproject.dependencies

Line(m, p) == [msg |-> m, name |-> p.name, latest |-> p.latest_version, current |-> p.version]

InvalidLine == Line("Invalid pyproject.toml file.", Raised("none"))
NoUpdatesLine == Line("No updates found.", Raised("none"))
UpdatingLine == Line("Updating pyproject.toml file...", Raised("none"))
RunWithUpdateLine == Line("Run with --update/-u to update the pyproject.toml file.", Raised("none"))
NewerLine(p) == Line("Newer version available", p)

\* a write that ignores the persist flag
ShouldWriteIgnoringFlag(upd, flag) == upd

\* the branch of check_for_updates that opens the file for writing
ShouldWrite(upd, flag) == upd /\ flag

----------------------------------------------------------------------------
(* check_for_updates *)
DepStrings ==
    { <<"a", "=", "=", "1">>,
      <<"a", "=", "=", "2">>,
      <<"a", "a", "=", "=", "1">>,
      <<"a">>,
      <<"a", ">", "=", "1">>,
      <<"a", "[", "x", "]", "=", "=", "1">>,
      <<"a", "[", "x", "=", "=", "1">>,
      <<"a", "=", "=", "1", "=", "=", "1">> }

RECURSIVE DepLists(_)
DepLists(n) ==
    IF n = 0 THEN {<<>>}
    ELSE DepLists(n - 1) \cup {Append(l, d) : l \in DepLists(n - 1), d \in DepStrings}

Files == {<<>>, <<"P">>} \cup {FileText(deps) : deps \in DepLists(MaxDeps)}

ParserIdle ==
    /\ string = <<>>
    /\ package = Raised("none")
    /\ rendered = None
    /\ ppc = "idle"

RunStart ==
    /\ pyproject_content = <<>>
    /\ packages = <<>>
    /\ updated = FALSE
    /\ pos = 1
    /\ pc = "start"
    /\ output = <<>>
    /\ lookups = <<>>
    /\ writes = 0

Init ==
    /\ ParserIdle
    /\ file \in Files
    /\ index \in [Names -> Versions \cup {HTTPError}]
    /\ update_file \in BOOLEAN
    /\ RunStart
    /\ original = file
    /\ run = 1
    /\ prev = "none"

\* open and read the file, parse it, check its structure
ReadFile ==
    /\ pc = "start"
    /\ pyproject_content' = file
    /\ IF IsValid(loads(file))
       THEN pc' = "build" /\ output' = output
       ELSE pc' = "done" /\ output' = Append(output, InvalidLine)
    /\ UNCHANGED <<file, index, update_file, packages, updated, pos, lookups, writes,
                   original, run, prev>>

\* the loop that builds one Package per dependency string
BuildPackages ==
    /\ pc = "build"
    /\ LET pyproject == loads(pyproject_content)
           built == [k \in 1..Len(pyproject.list) |-> from_string(pyproject.list[k])]
       IN  IF ~(pyproject.project /\ pyproject.dependencies)
           THEN pc' = "raised" /\ packages' = packages
           ELSE IF \E k \in 1..Len(built) : built[k].exc # "none"
           THEN pc' = "raised" /\ packages' = packages
           ELSE pc' = "loop" /\ packages' = built
    /\ pos' = 1
    /\ UNCHANGED <<file, index, update_file, pyproject_content, updated, output, lookups,
                   writes, original, run, prev>>

\* one iteration of the loop over packages
CheckPackage ==
    /\ pc = "loop"
    /\ pos <= Len(packages)
    /\ LET h == has_newer_version(packages[pos])
           p == h.package
       IN  /\ lookups' = IF h.asked THEN Append(lookups, p.name) ELSE lookups
           /\ packages' = [packages EXCEPT ![pos] = p]
           /\ IF h.exc # "none"
              THEN /\ pc' = "raised"
                   /\ UNCHANGED <<output, pyproject_content, updated, pos>>
              ELSE /\ pc' = "loop"
                   /\ pos' = pos + 1
                   /\ IF h.result
                      THEN /\ output' = Append(output, NewerLine(p))
                           /\ pyproject_content' =
                                  Replace(pyproject_content, str(p), updated_string(p))
                           /\ updated' = TRUE
                      ELSE UNCHANGED <<output, pyproject_content, updated>>
    /\ UNCHANGED <<file, index, update_file, writes, original, run, prev>>

\* the summary and the write after the loop
Finish ==
    /\ pc = "loop"
    /\ pos > Len(packages)
    /\ pc' = "done"
    /\ IF updated
       THEN IF ShouldWrite(updated, update_file)
            THEN /\ output' = Append(output, UpdatingLine)
                 /\ file' = pyproject_content
                 /\ writes' = writes + 1
            ELSE /\ output' = Append(output, RunWithUpdateLine)
                 /\ UNCHANGED <<file, writes>>
       ELSE /\ output' = Append(output, NoUpdatesLine)
            /\ UNCHANGED <<file, writes>>
    /\ UNCHANGED <<index, update_file, pyproject_content, packages, updated, pos, lookups,
                   original, run, prev>>

\* the tool is invoked again on the file the previous run left
Rerun ==
    /\ pc \in {"done", "raised"}
    /\ run < MaxRuns
    /\ run' = run + 1
    /\ prev' = IF pc = "raised" THEN "raised"
               ELSE IF ~IsValid(loads(original)) THEN "invalid"
               ELSE IF update_file THEN "persisted" ELSE "reported"
    /\ update_file' \in BOOLEAN
    /\ original' = file
    /\ pyproject_content' = <<>>
    /\ packages' = <<>>
    /\ updated' = FALSE
    /\ pos' = 1
    /\ pc' = "start"
    /\ output' = <<>>
    /\ lookups' = <<>>
    /\ writes' = 0
    /\ UNCHANGED <<file, index>>

Next ==
    \/ ReadFile /\ UNCHANGED pvars
    \/ BuildPackages /\ UNCHANGED pvars
    \/ CheckPackage /\ UNCHANGED pvars
    \/ Finish /\ UNCHANGED pvars
    \/ Rerun /\ UNCHANGED pvars

Spec == Init /\ [][Next]_vars

----------------------------------------------------------------------------
(* Parser specification: from_string applied to every bounded string, then *)
(* the as-declared render of the record it returned.                       *)
RECURSIVE StringsOfLen(_)
StringsOfLen(n) ==
    IF n = 0 THEN {<<>>}
    ELSE {Append(s, c) : s \in StringsOfLen(n - 1), c \in Alphabet}

Strings == UNION {StringsOfLen(n) : n \in 0..MaxLen}

DriverIdle ==
    /\ file = <<>>
    /\ index = [n \in Names |-> HTTPError]
    /\ update_file = FALSE
    /\ RunStart
    /\ original = <<>>
    /\ run = 1
    /\ prev = "none"

InitParse ==
    /\ string \in Strings
    /\ package = Raised("none")
    /\ rendered = None
    /\ ppc = "start"
    /\ DriverIdle

FromString ==
    /\ ppc = "start"
    /\ package' = from_string(string)
    /\ ppc' = IF package'.exc = "none" THEN "parsed" ELSE "raised"
    /\ UNCHANGED <<string, rendered>>

Str ==
    /\ ppc = "parsed"
    /\ rendered' = str(package)
    /\ ppc' = "rendered"
    /\ UNCHANGED <<string, package>>

NextParse ==
    \/ FromString /\ UNCHANGED dvars
    \/ Str /\ UNCHANGED dvars

SpecParse == InitParse /\ [][NextParse]_vars

----------------------------------------------------------------------------
HasOperator(s) == FindDelimiter(s) # None

\* C2: from_string returns a Package for every input string and never raises.
C2_ParsingTotal == ppc # "raised"

\* C1: for every string containing one of the four operators, from_string
\* followed by __str__ gives back the original string.
C1_RoundTrip ==
    HasOperator(string) => /\ ppc # "raised"
                           /\ (ppc = "rendered" => rendered = string)

\* C9: the operator is the first of ==, >=, <=, ~= occurring in the string, the
\* name part is the text before its first occurrence and the version all the
\* text after it; with no operator the whole string is the name part, the
\* version is absent and the operator is ==.
C9_OperatorSplit ==
    ppc # "start" =>
        LET sv == SplitVersion(string)
            d  == Delimiter(string)
            i  == Find(string, d)
        IN  IF HasOperator(string)
            THEN /\ sv.exc = "none"
                 /\ sv.package_name = SubSeq(string, 1, i - 1)
                 /\ sv.version = SubSeq(string, i + 2, Len(string))
                 /\ ppc # "raised" => package.delimiter = d /\ package.version = sv.version
            ELSE /\ sv.exc = "none"
                 /\ sv.package_name = string
                 /\ sv.version = None
                 /\ ppc # "raised" => package.delimiter = <<"=", "=">> /\ package.version = None

----------------------------------------------------------------------------
(* Properties of check_for_updates *)
Last(seq) == seq[Len(seq)]

ValidDocument(text) == loads(text).project /\ loads(text).dependencies

\* the record was treated as newer by the loop
TreatedNewer(p) == ~Truthy(p.version) \/ p.latest_version # p.version

\* C3: a persisting run changes only the entries of the dependencies found
\* newer, each into its updated render, and leaves every other entry as it was.
C3_OnlyNewerEntriesRewritten ==
    (pc = "done" /\ writes = 1) =>
        LET before == loads(original).list
            after  == loads(file).list
        IN  /\ Len(after) = Len(before)
            /\ \A k \in 1..Len(before) :
                   after[k] = IF TreatedNewer(packages[k])
                              THEN updated_string(packages[k])
                              ELSE before[k]

\* C4: a run that follows a completed persisting run, with the same index,
\* finds nothing newer and prints only "No updates found.".
C4_SecondRunFindsNothing ==
    (run >= 2 /\ prev = "persisted" /\ pc = "done") => output = <<NoUpdatesLine>>

\* C5: at most one write per run, only after the whole loop and only with the
\* persist flag; a run without the flag and a run ended by a failed lookup
\* leave the file as it was.
C5_SingleWriteAtEnd ==
    /\ writes <= 1
    /\ writes = 1 => /\ update_file
                     /\ pc = "done"
                     /\ Len(packages) = Len(loads(original).list)
                     /\ pos = Len(packages) + 1
    /\ (~update_file \/ pc = "raised") => (writes = 0 /\ file = original)
    /\ file # original => writes = 1

C5_Witness ==
    /\ writes = 1
    /\ file # original
    /\ Len(packages) = 2
    /\ Len(lookups) = 2

\* C6: a document without the project table or without the dependencies key
\* gets the invalid-file message and a normal return: no lookup, no write, no
\* summary line.
C6_InvalidDocument ==
    (~ValidDocument(original) /\ pc # "start") =>
        /\ pc = "done"
        /\ output = <<InvalidLine>>
        /\ lookups = <<>>
        /\ writes = 0
        /\ file = original

C6_Witness ==
    /\ pc = "done"
    /\ loads(original).project
    /\ ~loads(original).dependencies
    /\ update_file

\* C7: the outcome follows from whether the text buffer differs from the
\* original: a write or the re-run prompt when it differs, "No updates found."
\* and no write when it does not.
C7_OutcomeFollowsTextDifference ==
    (pc = "done" /\ ValidDocument(original)) =>
        IF pyproject_content # original
        THEN IF update_file
             THEN writes = 1 /\ file = pyproject_content /\ Last(output) = UpdatingLine
             ELSE writes = 0 /\ file = original /\ Last(output) = RunWithUpdateLine
        ELSE writes = 0 /\ file = original /\ Last(output) = NoUpdatesLine

\* C8: a completed run on a valid document asked the index exactly once for
\* each declared dependency, in list order.
C8_OneLookupPerDependency ==
    (pc = "done" /\ ValidDocument(original)) =>
        lookups = [k \in 1..Len(packages) |-> packages[k].name]

\* C10: every "Newer version" line reports a version the index returned, never
\* an absent one, and a record's latest version is assigned at most once.
C10_NewerHasLatestVersion ==
    /\ [](\A k \in 1..Len(output) :
              output[k].msg = "Newer version available" => output[k].latest # None)
    /\ [][\A k \in (DOMAIN packages) \cap (DOMAIN packages') :
              packages[k].latest_version # None =>
                  packages'[k].latest_version = packages[k].latest_version]_vars
====
